---- MODULE Spec2Model ----
(***************************************************************************)
(* A model of quiz_generator.py: main() loads the transcripts of a folder, *)
(* submits one process_transcript job per transcript to a thread pool of   *)
(* max_workers threads and reports every job as it completes.              *)
(*                                                                         *)
(* Texts (file names, model responses, file contents) are sequences of     *)
(* characters, each a string; a JSON document is the token sequence        *)
(*    { " <transcript_id> " , [ <item> ... ] }                             *)
(* where every quiz item is one token of ItemTokens.                       *)
(***************************************************************************)
EXTENDS Integers, Sequences, FiniteSets, TLC

\* ---------------------------------------------------------------- bounds
\* Largest number of entries of the input folder.
MaxFiles == 2
\* longest reply content and longest filename stem of the function checks
MaxInner == 3
MaxStem == 3
\* Largest value of --workers.
MaxWorkers == 2
\* Tokens the file object buffers before it writes them to the file.
BufSize == 9

\* ------------------------------------------------------------ small helpers
Max(a, b) == IF a >= b THEN a ELSE b
Min(a, b) == IF a <= b THEN a ELSE b

\* Python's None / a value, as a sequence of length 0 / 1.
None == <<>>
Some(x) == <<x>>
IsNone(o) == o = <<>>

SubStr(s, a, b) == [i \in 1..(b - a + 1) |-> s[a + i - 1]]

\* s[from..] starts with pat
StartsAt(s, from, pat) ==
  /\ from + Len(pat) - 1 <= Len(s)
  /\ \A k \in 1..Len(pat) : s[from + k - 1] = pat[k]

\* ------------------------------------------------------------ str methods
LowerOf(c) ==
  CASE c = "A" -> "a" [] c = "B" -> "b" [] c = "T" -> "t" [] c = "X" -> "x"
    [] c = "M" -> "m" [] c = "D" -> "d" [] OTHER -> c

UpperOf(c) ==
  CASE c = "a" -> "A" [] c = "b" -> "B" [] c = "t" -> "T" [] c = "x" -> "X"
    [] c = "m" -> "M" [] c = "d" -> "D" [] OTHER -> c

\* str.lower(), str.upper()
Lower(s) == [i \in 1..Len(s) |-> LowerOf(s[i])]
Upper(s) == [i \in 1..Len(s) |-> UpperOf(s[i])]

\* str.endswith(suffix)
EndsWith(s, suffix) ==
  /\ Len(suffix) <= Len(s)
  /\ StartsAt(s, Len(s) - Len(suffix) + 1, suffix)

TxtSuffix == <<".", "t", "x", "t">>

\* the loader's filter: fn.lower().endswith(".txt")
IsTranscriptName(fn) == EndsWith(Lower(fn), TxtSuffix)

\* index of the last "." of s, 0 when there is none (str.rfind, 1-based)
LastDot(s) ==
  LET dots == {i \in 1..Len(s) : s[i] = "."}
  IN IF dots = {} THEN 0 ELSE CHOOSE i \in dots : \A k \in dots : k <= i

\* os.path.splitext(filename)[0] for a name without a path separator: the
\* last dot starts the extension unless only dots precede it.
SplitextRoot(fn) ==
  LET d == LastDot(fn)
  IN IF d > 0 /\ \E i \in 1..(d - 1) : fn[i] # "."
       THEN SubStr(fn, 1, d - 1)
       ELSE fn

\* base = os.path.splitext(filename)[0]; transcript_id = base.upper()
TranscriptId(fn) == Upper(SplitextRoot(fn))

\* str.replace(pat, ""): every leftmost non-overlapping occurrence is removed
RECURSIVE RemoveFrom(_, _, _)
RemoveFrom(s, pat, i) ==
  IF i > Len(s) THEN <<>>
  ELSE IF StartsAt(s, i, pat) THEN RemoveFrom(s, pat, i + Len(pat))
  ELSE <<s[i]>> \o RemoveFrom(s, pat, i + 1)

Remove(s, pat) == RemoveFrom(s, pat, 1)

IsSpace(c) == c \in {" ", "\n", "\t"}

\* str.strip()
Strip(s) ==
  LET keep == {i \in 1..Len(s) : ~IsSpace(s[i])}
  IN IF keep = {} THEN <<>>
     ELSE SubStr(s, CHOOSE i \in keep : \A k \in keep : i <= k,
                    CHOOSE i \in keep : \A k \in keep : k <= i)

\* The backquote character (a string of the module cannot hold it).
Tick == "tick"

FenceJson == <<Tick, Tick, Tick, "j", "s", "o", "n">>
Fence == <<Tick, Tick, Tick>>

\* (mutant) the bare fence is removed before the tagged one
StripFences_FenceFirst(raw) == Strip(Remove(Remove(raw, Fence), FenceJson))

\* raw.replace("```json", "").replace("```", "").strip()
StripFences(raw) == Strip(Remove(Remove(raw, FenceJson), Fence))

\* ------------------------------------------------------------------- JSON
\* The quiz items a response can hold, as tokens of the text and as parsed
\* values.
ItemTokens == {"q4:0", "q4:3", "q3:4"}

ItemValue(tok) ==
  CASE tok = "q4:0" -> [options |-> 4, correct_answer_index |-> 0]
    [] tok = "q4:3" -> [options |-> 4, correct_answer_index |-> 3]
    [] tok = "q3:4" -> [options |-> 3, correct_answer_index |-> 4]

ItemText(item) == CHOOSE tok \in ItemTokens : ItemValue(tok) = item

Quote == "\""

\* smallest index >= from where s holds c, 0 when there is none
IndexFrom(s, c, from) ==
  LET hits == {i \in from..Len(s) : s[i] = c}
  IN IF hits = {} THEN 0 ELSE CHOOSE i \in hits : \A k \in hits : i <= k

\* first index >= from of s that holds no item token (Len(s) + 1 at the end)
ItemsEnd(s, from) ==
  LET stops == {i \in from..Len(s) : s[i] \notin ItemTokens}
  IN IF stops = {} THEN Len(s) + 1 ELSE CHOOSE i \in stops : \A k \in stops : i <= k

ParseFail(msg) == [ok |-> FALSE, obj |-> <<>>, diag |-> msg]

\* json.loads(text): the parsed object, or the JSONDecodeError's message
json_loads(text) ==
  LET n == Len(text)
      q == IndexFrom(text, Quote, 3)
      r == ItemsEnd(text, q + 3)
  IN IF n = 0 \/ text[1] # "{" THEN ParseFail("Expecting value")
     ELSE IF n < 2 \/ text[2] # Quote
       THEN ParseFail("Expecting property name enclosed in double quotes")
     ELSE IF q = 0 THEN ParseFail("Unterminated string")
     ELSE IF ~StartsAt(text, q + 1, <<",", "[">>)
       THEN ParseFail("Expecting ',' delimiter")
     ELSE IF r > n \/ text[r] # "]" THEN ParseFail("Expecting ',' delimiter")
     ELSE IF r + 1 > n \/ text[r + 1] # "}" THEN ParseFail("Expecting ',' delimiter")
     ELSE IF r + 1 < n THEN ParseFail("Extra data")
     ELSE [ok |-> TRUE,
           obj |-> [transcript_id |-> SubStr(text, 3, q - 1),
                    quizzes |-> [i \in 1..(r - q - 3) |-> ItemValue(text[q + 2 + i])]],
           diag |-> ""]

\* json.dump(obj, out_f, ensure_ascii=False, indent=2): the text written
json_dump(obj) ==
  <<"{", Quote>> \o obj.transcript_id \o <<Quote, ",", "[">>
    \o [i \in 1..Len(obj.quizzes) |-> ItemText(obj.quizzes[i])] \o <<"]", "}">>

\* ------------------------------------------------------- the model's replies
GoodItems == <<ItemValue("q4:0"), ItemValue("q4:3"), ItemValue("q4:0")>>

\* a document as the prompt asks for it
DocOk(tid) == [transcript_id |-> tid, quizzes |-> GoodItems]
\* a document for another transcript
DocDrift == [transcript_id |-> <<"Z">>, quizzes |-> GoodItems]
\* one question only, of three options, whose answer index is 4
DocBad(tid) == [transcript_id |-> tid, quizzes |-> <<ItemValue("q3:4")>>]

\* The texts the chain can return for a request (the reply is free text):
\* the document asked for, bare or inside fences, a document for another
\* transcript, a document of the wrong shape, and a reply cut short.
Responses(tid) ==
  LET ok == json_dump(DocOk(tid))
  IN { ok,
       FenceJson \o <<"\n">> \o ok \o <<"\n">> \o Fence,
       Fence \o <<"\n">> \o ok \o <<"\n">> \o Fence \o <<"\n">>,
       json_dump(DocDrift),
       json_dump(DocBad(tid)),
       SubStr(ok, 1, Len(ok) - 2) }

\* str(e) of the exceptions the chain raises
ClientErrors == {<<"Connection error.">>, <<>>}
\* str(e) of the OSError of os.makedirs / open, and of a failed write
OpenError == <<"Permission denied">>
WriteError == <<"No space left on device">>

\* ------------------------------------------------------------------ state
\* The names the entries of the input folder can have, in the order in which
\* os.listdir returns those that exist (jobs differ by their names only).
DirOrder == << <<"b", ".", "t", "x", "t">>,
               <<"a", ".", "t", "x", "t">>,
               <<"A", ".", "T", "X", "T">> >>
DirNames == {DirOrder[i] : i \in 1..Len(DirOrder)}

RECURSIVE Restrict(_, _)
Restrict(l, keep) ==
  IF l = <<>> THEN <<>>
  ELSE (IF Head(l) \in keep THEN <<Head(l)>> ELSE <<>>) \o Restrict(Tail(l), keep)

\* os.listdir(folder_path), for every folder of at most MaxFiles entries
Listings == {Restrict(DirOrder, S) : S \in {T \in SUBSET DirNames : Cardinality(T) <= MaxFiles}}

\* the text of the file of a name
TextOf(fn) == <<"text of">> \o fn

\* args.output_dir and os.path.join(output_dir, f"{transcript_id}.json")
OutputDir == <<"quiz">>
OutPath(tid) == OutputDir \o <<"/">> \o tid \o <<".", "j", "s", "o", "n">>
Paths == {OutPath(TranscriptId(fn)) : fn \in DirNames}

VARIABLES
  fnArg,        \* the input of a function under check (function checks only)
  fnRes,        \* None, or Some(what the function made of fnArg)
  inputDir,     \* the input folder: ok, missing or unreadable
  dirs,         \* the entries of the input folder that are directories
  listing,      \* the entries of the input folder, in os.listdir's order
  max_workers,  \* args.workers
  mpc,          \* where main() is: load, setup, submit, report, done; or
                \* crashed, when an exception has left main()
  transcripts,  \* main's list of (fn, text)
  jobs,         \* one record per submitted job, in submission order
  futures,      \* per submitted job: None, or Some(the tuple it returned)
  outDirExists, \* the output folder exists
  disk,         \* per path of the output folder: None, or Some(content)
  lastWriter,   \* per path: None, or Some(the job that wrote to it last)
  calls,        \* per submitted job: how often it invoked the chain
  completed,    \* the jobs in the order they completed
  snapshot,     \* as_completed: the futures finished when it was entered
  printed       \* the lines printed, in order

vars == <<fnArg, fnRes, inputDir, dirs, listing, max_workers, mpc, transcripts, jobs, futures, outDirExists,
          disk, lastWriter, calls, completed, snapshot, printed>>

N == Len(transcripts)
Submitted == 1..Len(jobs)
Filename(j) == transcripts[j][1]

\* (mutant) the thread of a job that failed is lost to the pool
Running_Leaky ==
  {j \in 1..Len(jobs) : jobs[j].pc \in {"invoking", "hung", "parsed", "writing"}
                           \/ jobs[j].stage # ""}

\* the jobs a worker thread is executing ("hung": inside a call of the chain
\* that never returns)
Running == {j \in Submitted : jobs[j].pc \in {"invoking", "hung", "parsed", "writing"}}
Hung == {j \in Submitted : jobs[j].pc = "hung"}
Done == {j \in Submitted : jobs[j].pc = "done"}
Reported == {printed[i].job : i \in 1..Len(printed)}

\* The entries a folder can have besides transcripts: a file of another
\* suffix, a subdirectory, and a subdirectory whose name ends in .txt.
PoolOrder == << <<"b", ".", "t", "x", "t">>,
                <<"A", ".", "T", "X", "T">>,
                <<"n", ".", "m", "d">>,
                <<"s", "u", "b">>,
                <<"d", ".", "t", "x", "t">> >>
PoolNames == {PoolOrder[i] : i \in 1..Len(PoolOrder)}
PoolDirs == { <<"s", "u", "b">>, <<"d", ".", "t", "x", "t">> }
PoolListings ==
  {Restrict(PoolOrder, S) : S \in {T \in SUBSET PoolNames : Cardinality(T) <= MaxFiles}}

\* main() starts on any folder: missing, unreadable, or of any entries
InitDir ==
  /\ fnArg = <<>>
  /\ fnRes = None
  /\ inputDir \in {"ok", "missing", "unreadable"}
  /\ listing \in PoolListings
  /\ inputDir # "ok" => listing = <<>>
  /\ dirs = {listing[i] : i \in 1..Len(listing)} \cap PoolDirs
  /\ max_workers \in 1..MaxWorkers
  /\ mpc = "load"
  /\ transcripts = <<>>
  /\ jobs = <<>>
  /\ futures = <<>>
  /\ outDirExists = FALSE
  /\ disk = [p \in Paths |-> None]
  /\ lastWriter = [p \in Paths |-> None]
  /\ calls = <<>>
  /\ completed = <<>>
  /\ snapshot = {}
  /\ printed = <<>>

\* main() starts on a readable folder of regular files
Init ==
  /\ fnArg = <<>>
  /\ fnRes = None
  /\ inputDir = "ok"
  /\ dirs = {}
  /\ listing \in Listings
  /\ max_workers \in 1..MaxWorkers
  /\ mpc = "load"
  /\ transcripts = <<>>
  /\ jobs = <<>>
  /\ futures = <<>>
  /\ outDirExists = FALSE
  /\ disk = [p \in Paths |-> None]
  /\ lastWriter = [p \in Paths |-> None]
  /\ calls = <<>>
  /\ completed = <<>>
  /\ snapshot = {}
  /\ printed = <<>>

\* ------------------------------------------------------------------- main
RECURSIVE SelectTranscripts(_)
SelectTranscripts(l) ==
  IF l = <<>> THEN <<>>
  ELSE (IF IsTranscriptName(Head(l)) THEN << <<Head(l), TextOf(Head(l))>> >> ELSE <<>>)
         \o SelectTranscripts(Tail(l))

\* load_transcripts(folder_path)
load_transcripts(l) == SelectTranscripts(l)

\* (mutant) a folder that cannot be listed counts as an empty one
LoadRaises_FolderIgnored ==
  \E i \in 1..Len(listing) : IsTranscriptName(listing[i]) /\ listing[i] \in dirs

\* os.listdir raises for a folder that is missing or unreadable, and open
\* raises for an entry that passes the filter and is a directory
LoadRaises ==
  \/ inputDir # "ok"
  \/ \E i \in 1..Len(listing) : IsTranscriptName(listing[i]) /\ listing[i] \in dirs

NoticeLine == [job |-> 0, kind |-> "No transcript files found in",
               fn |-> <<>>, detail |-> <<>>]

\* (mutant) main() goes on when no transcript was found
Load_NoEarlyReturn ==
  /\ mpc = "load"
  /\ transcripts' = IF LoadRaises THEN <<>> ELSE load_transcripts(listing)
  /\ mpc' = IF LoadRaises THEN "crashed" ELSE "setup"
  /\ printed' = IF ~LoadRaises /\ transcripts' = <<>> THEN <<NoticeLine>> ELSE printed
  /\ UNCHANGED <<fnArg, fnRes, inputDir, dirs, listing, max_workers, jobs, futures,
                 outDirExists, disk, lastWriter, calls, completed, snapshot>>

\* transcripts = load_transcripts(transcripts_dir); if not transcripts: return
\* (an exception of load_transcripts leaves main())
Load ==
  /\ mpc = "load"
  /\ transcripts' = IF LoadRaises THEN <<>> ELSE load_transcripts(listing)
  /\ mpc' = IF LoadRaises THEN "crashed"
            ELSE IF transcripts' = <<>> THEN "done" ELSE "setup"
  /\ printed' = IF ~LoadRaises /\ transcripts' = <<>> THEN <<NoticeLine>> ELSE printed
  /\ UNCHANGED <<fnArg, fnRes, inputDir, dirs, listing, max_workers, jobs, futures, outDirExists, disk,
                 lastWriter, calls, completed, snapshot>>

\* the chain is built; os.makedirs(output_dir, exist_ok=True)
Setup ==
  /\ mpc = "setup"
  /\ outDirExists' = TRUE
  /\ mpc' = "submit"
  /\ UNCHANGED <<fnArg, fnRes, inputDir, dirs, listing, max_workers, transcripts, jobs, futures, disk,
                 lastWriter, calls, completed, snapshot, printed>>

\* pc: queued, invoking, parsed, writing, done; stage: where the job failed
\* ("" if it has not); obj: the parsed response; off: the offset of out_f;
\* opened: the job has opened its output file; request: None, or Some(what
\* the job passed to quiz_chain.invoke)
NewJob == [pc |-> "queued", stage |-> "", obj |-> None, off |-> 0, opened |-> FALSE,
           request |-> None]

\* executor.submit(process_transcript, fn, text, quiz_chain, output_dir)
Submit ==
  /\ mpc = "submit"
  /\ Len(jobs) < N
  /\ jobs' = Append(jobs, NewJob)
  /\ futures' = Append(futures, None)
  /\ calls' = Append(calls, 0)
  /\ UNCHANGED <<fnArg, fnRes, inputDir, dirs, listing, max_workers, mpc, transcripts, outDirExists, disk,
                 lastWriter, completed, snapshot, printed>>

\* as_completed(futures) is entered: the futures already finished are set
\* aside, to be yielded first
AsCompleted ==
  /\ mpc = "submit"
  /\ Len(jobs) = N
  /\ snapshot' = Done
  /\ mpc' = "report"
  /\ UNCHANGED <<fnArg, fnRes, inputDir, dirs, listing, max_workers, transcripts, jobs, futures, outDirExists,
                 disk, lastWriter, calls, completed, printed>>

\* as_completed can yield the future of j next: one of those finished at its
\* entry (in no order), and after them the others in their completion order
CanYield(j) ==
  /\ j \in Done \ Reported
  /\ \/ j \in snapshot
     \/ /\ snapshot \subseteq Reported
        /\ \A i \in 1..Len(completed) :
             completed[i] \notin (snapshot \cup Reported) =>
               \E k \in 1..i : completed[k] = j

\* if err: print(f"Error processing {fn}: {err}")
\* else:   print(f"Generated quiz for {fn} -> {out_path}")
ReportLine(j, res) ==
  IF res.error # None /\ res.error # Some(<<>>)
    THEN [job |-> j, kind |-> "Error processing", fn |-> Filename(j),
          detail |-> res.error[1]]
    ELSE [job |-> j, kind |-> "Generated quiz for", fn |-> Filename(j),
          detail |-> res.out_path]

\* one turn of the loop over as_completed(futures)
Report(j) ==
  /\ mpc = "report"
  /\ CanYield(j)
  /\ printed' = Append(printed, ReportLine(j, futures[j][1]))
  /\ UNCHANGED <<fnArg, fnRes, inputDir, dirs, listing, max_workers, mpc, transcripts, jobs, futures,
                 outDirExists, disk, lastWriter, calls, completed, snapshot>>

\* (mutant) the loop gives up on the futures whose call never returns
Exit_AbandonsHung ==
  /\ mpc = "report"
  /\ Reported \cup Hung = 1..N
  /\ mpc' = "done"
  /\ UNCHANGED <<fnArg, fnRes, inputDir, dirs, listing, max_workers, transcripts, jobs, futures, outDirExists,
                 disk, lastWriter, calls, completed, snapshot, printed>>

\* the loop is over; the with block shuts the executor down
Exit ==
  /\ mpc = "report"
  /\ Reported = 1..N
  /\ mpc' = "done"
  /\ UNCHANGED <<fnArg, fnRes, inputDir, dirs, listing, max_workers, transcripts, jobs, futures, outDirExists,
                 disk, lastWriter, calls, completed, snapshot, printed>>

\* ------------------------------------------------------ process_transcript
\* (mutant) the pool starts a thread for every job submitted
WorkerFree_Unbounded == TRUE

\* a thread of the pool is free: the executor runs at most max_workers threads
WorkerFree == Cardinality(Running) < max_workers

\* the work queue of the executor is first in, first out
HeadOfQueue(j) ==
  /\ jobs[j].pc = "queued"
  /\ \A k \in Submitted : jobs[k].pc = "queued" => j <= k

\* the job returns `result`: its future is finished
Return(j, stage, result) ==
  /\ jobs' = [jobs EXCEPT ![j].pc = "done", ![j].stage = stage,
                          ![j].obj = IF result.error = None THEN jobs[j].obj ELSE None,
                          ![j].off = 0]
  /\ futures' = [futures EXCEPT ![j] = Some(result)]
  /\ completed' = Append(completed, j)

\* (mutant) the handler returns no error message
ReturnError_NoMessage(j, stage, msg) ==
  Return(j, stage, [filename |-> Filename(j), out_path |-> None, error |-> None])

\* except Exception as e: return (filename, None, str(e))
ReturnError(j, stage, msg) ==
  Return(j, stage, [filename |-> Filename(j), out_path |-> None, error |-> Some(msg)])

\* (mutant) the handler of Exception comes first and takes the parse error
ReturnParseError_Unclassified(j, diag) ==
  ReturnError(j, "parse", <<diag>>)

\* except json.JSONDecodeError as e: return (filename, None, f"JSON parse error: {e}")
ReturnParseError(j, diag) ==
  ReturnError(j, "parse", <<"JSON parse error: ", diag>>)

\* (mutant) every job reads the transcript through one shared variable
Request_Shared(j) ==
  [transcript_id |-> TranscriptId(transcripts[N][1]), context |-> transcripts[N][2]]

\* {"transcript_id": transcript_id, "context": [Document(page_content=text)]}
\* for the arguments (filename, text) that main submitted for job j
Request(j) ==
  [transcript_id |-> TranscriptId(transcripts[j][1]), context |-> transcripts[j][2]]

\* a worker thread takes the job from the queue; the job derives its
\* identifier and calls quiz_chain.invoke
StartJob(j) ==
  /\ j \in Submitted
  /\ HeadOfQueue(j)
  /\ WorkerFree
  /\ jobs' = [jobs EXCEPT ![j].pc = "invoking", ![j].request = Some(Request(j))]
  /\ calls' = [calls EXCEPT ![j] = calls[j] + 1]
  /\ UNCHANGED <<fnArg, fnRes, inputDir, dirs, listing, max_workers, mpc, transcripts, futures, outDirExists,
                 disk, lastWriter, completed, snapshot, printed>>

\* (mutant) a failed call is made once more before the job gives up
ClientFail_Retry(j) ==
  /\ j \in Submitted
  /\ jobs[j].pc = "invoking"
  /\ IF calls[j] < 2
       THEN /\ calls' = [calls EXCEPT ![j] = calls[j] + 1]
            /\ UNCHANGED <<jobs, futures, completed>>
       ELSE /\ \E msg \in ClientErrors : ReturnError(j, "client", msg)
            /\ UNCHANGED calls
  /\ UNCHANGED <<fnArg, fnRes, inputDir, dirs, listing, max_workers, mpc, transcripts, outDirExists, disk,
                 lastWriter, snapshot, printed>>

\* quiz_chain.invoke raises (the prompt cannot be rendered, or the call to
\* the service fails)
ClientFail(j) ==
  /\ j \in Submitted
  /\ jobs[j].pc = "invoking"
  /\ \E msg \in ClientErrors : ReturnError(j, "client", msg)
  /\ UNCHANGED <<fnArg, fnRes, inputDir, dirs, listing, max_workers, mpc, transcripts, outDirExists, disk,
                 lastWriter, calls, snapshot, printed>>

\* quiz_chain.invoke neither returns nor raises: the thread stays in the call
ClientHang(j) ==
  /\ j \in Submitted
  /\ jobs[j].pc = "invoking"
  /\ jobs' = [jobs EXCEPT ![j].pc = "hung"]
  /\ UNCHANGED <<fnArg, fnRes, inputDir, dirs, listing, max_workers, mpc, transcripts, futures, outDirExists,
                 disk, lastWriter, calls, completed, snapshot, printed>>

\* quiz_chain.invoke returns raw; the fences are stripped and the text parsed
ClientReturn(j) ==
  /\ j \in Submitted
  /\ jobs[j].pc = "invoking"
  /\ \E raw \in Responses(jobs[j].request[1].transcript_id) :
       LET parsed == json_loads(StripFences(raw))
       IN IF parsed.ok
            THEN /\ jobs' = [jobs EXCEPT ![j].pc = "parsed", ![j].obj = Some(parsed.obj)]
                 /\ UNCHANGED <<futures, completed>>
            ELSE ReturnParseError(j, parsed.diag)
  /\ UNCHANGED <<fnArg, fnRes, inputDir, dirs, listing, max_workers, mpc, transcripts, outDirExists, disk,
                 lastWriter, calls, snapshot, printed>>

JobPath(j) == OutPath(TranscriptId(Filename(j)))

\* os.makedirs(output_dir, exist_ok=True); open(out_path, "w") creates the
\* file or cuts it to length 0
OpenFile(j) ==
  /\ j \in Submitted
  /\ jobs[j].pc = "parsed"
  /\ outDirExists' = TRUE
  /\ disk' = [disk EXCEPT ![JobPath(j)] = Some(<<>>)]
  /\ jobs' = [jobs EXCEPT ![j].pc = "writing", ![j].off = 0, ![j].opened = TRUE]
  /\ UNCHANGED <<fnArg, fnRes, inputDir, dirs, listing, max_workers, mpc, transcripts, futures, lastWriter,
                 calls, completed, snapshot, printed>>

\* os.makedirs or open raises
OpenFail(j) ==
  /\ j \in Submitted
  /\ jobs[j].pc = "parsed"
  /\ ReturnError(j, "open", OpenError)
  /\ UNCHANGED <<fnArg, fnRes, inputDir, dirs, listing, max_workers, mpc, transcripts, outDirExists, disk,
                 lastWriter, calls, snapshot, printed>>

\* `chunk` written at offset off of a file of content `data`: a file shorter
\* than the offset is filled up with NUL
NUL == "NUL"
WriteAt(data, off, chunk) ==
  LET len == Max(Len(data), off + Len(chunk))
  IN [i \in 1..len |->
        IF i > off /\ i <= off + Len(chunk) THEN chunk[i - off]
        ELSE IF i <= Len(data) THEN data[i] ELSE NUL]

\* the part of the text that the job writes next
NextChunk(j) ==
  LET text == json_dump(jobs[j].obj[1])
  IN SubStr(text, jobs[j].off + 1, Min(Len(text), jobs[j].off + BufSize))

\* the buffer of out_f is written to the file, at the offset of out_f; with
\* the last part the file is closed and the job returns its output path
WriteChunk(j) ==
  /\ j \in Submitted
  /\ jobs[j].pc = "writing"
  /\ LET chunk == NextChunk(j)
         end == jobs[j].off + Len(chunk)
         path == JobPath(j)
     IN /\ disk' = [disk EXCEPT ![path] = Some(WriteAt(disk[path][1], jobs[j].off, chunk))]
        /\ lastWriter' = [lastWriter EXCEPT ![path] = Some(j)]
        /\ IF end < Len(json_dump(jobs[j].obj[1]))
             THEN /\ jobs' = [jobs EXCEPT ![j].off = end]
                  /\ UNCHANGED <<futures, completed>>
             ELSE Return(j, "", [filename |-> Filename(j), out_path |-> Some(path),
                                 error |-> None])
  /\ UNCHANGED <<fnArg, fnRes, inputDir, dirs, listing, max_workers, mpc, transcripts, outDirExists, calls,
                 snapshot, printed>>

\* (mutant) a job whose write fails empties the files of the output folder
WriteFail_Rollback(j) ==
  /\ j \in Submitted
  /\ jobs[j].pc = "writing"
  /\ ReturnError(j, "write", WriteError)
  /\ disk' = [p \in Paths |-> IF disk[p] = None THEN None ELSE Some(<<>>)]
  /\ UNCHANGED <<fnArg, fnRes, inputDir, dirs, listing, max_workers, mpc, transcripts, outDirExists,
                 lastWriter, calls, snapshot, printed>>

\* json.dump or the write of the buffer raises; the with block closes out_f
WriteFail(j) ==
  /\ j \in Submitted
  /\ jobs[j].pc = "writing"
  /\ ReturnError(j, "write", WriteError)
  /\ UNCHANGED <<fnArg, fnRes, inputDir, dirs, listing, max_workers, mpc, transcripts, outDirExists, disk,
                 lastWriter, calls, snapshot, printed>>

\* ------------------------------------------------------------ specification
JobIds == 1..MaxFiles

Next ==
  \/ Load
  \/ Setup
  \/ Submit
  \/ AsCompleted
  \/ \E j \in JobIds : Report(j)
  \/ Exit
  \/ \E j \in JobIds : StartJob(j)
  \/ \E j \in JobIds : ClientFail(j)
  \/ \E j \in JobIds : ClientReturn(j)
  \/ \E j \in JobIds : OpenFile(j)
  \/ \E j \in JobIds : OpenFail(j)
  \/ \E j \in JobIds : WriteChunk(j)
  \/ \E j \in JobIds : WriteFail(j)

Spec == Init /\ [][Next]_vars

\* Threads run and every call to the service returns or fails.
FairSpec == Spec /\ WF_vars(Next)

\* A call of the chain may also never return; every other step is taken
\* in the end.
NextHang ==
  \/ Next
  \/ \E j \in JobIds : ClientHang(j)

HangSpec == Init /\ [][NextHang]_vars /\ WF_vars(Next)

\* main() on any input folder
DirSpec == InitDir /\ [][Next]_vars

\* --------------------------------------------- functions of process_transcript
\* the state of main() while one function is applied on its own
mainVars == <<inputDir, dirs, listing, max_workers, mpc, transcripts, jobs, futures,
              outDirExists, disk, lastWriter, calls, completed, snapshot, printed>>

MainIdle ==
  /\ inputDir = "ok"
  /\ dirs = {}
  /\ listing = <<>>
  /\ max_workers = 1
  /\ mpc = "call"
  /\ transcripts = <<>>
  /\ jobs = <<>>
  /\ futures = <<>>
  /\ outDirExists = FALSE
  /\ disk = [p \in Paths |-> None]
  /\ lastWriter = [p \in Paths |-> None]
  /\ calls = <<>>
  /\ completed = <<>>
  /\ snapshot = {}
  /\ printed = <<>>

\* the texts of at most n characters of the set chars
TextsUpTo(chars, n) == UNION {[1..k -> chars] : k \in 0..n}

\* Reply contents: backquotes, a letter of the tag, white space, a brace;
\* none holds a fence.
InnerChars == {Tick, "j", " ", "{"}
InnerContents ==
  {t \in TextsUpTo(InnerChars, MaxInner) : \A i \in 1..Len(t) : ~StartsAt(t, i, Fence)}

\* A fenced block sets its fences apart from the content by white space.
Separators == {<<" ">>, <<"\n">>}
Wrappings(inner) ==
  {inner}
    \cup {FenceJson \o sep \o inner \o sep \o Fence : sep \in Separators}
    \cup {Fence \o sep \o inner \o sep \o Fence : sep \in Separators}

InitStrip ==
  /\ fnArg \in InnerContents
  /\ fnRes = None
  /\ MainIdle

\* text = raw.replace(...).replace(...).strip(), for a reply that holds the
\* content bare or fenced
StripReply ==
  /\ fnRes = None
  /\ \E raw \in Wrappings(fnArg) :
       fnRes' = Some([raw |-> raw, text |-> StripFences(raw), again |-> None])
  /\ UNCHANGED <<fnArg, mainVars>>

\* the same statement applied to its own result
StripAgain ==
  /\ fnRes # None
  /\ fnRes[1].again = None
  /\ fnRes' = Some([fnRes[1] EXCEPT !.again = Some(StripFences(fnRes[1].text))])
  /\ UNCHANGED <<fnArg, mainVars>>

NextStrip == StripReply \/ StripAgain

StripSpec == InitStrip /\ [][NextStrip]_vars

\* Filenames: a stem of letters and dots, then the suffix in some case.
StemChars == {"a", "B", "."}
Suffixes == {<<".", "t", "x", "t">>, <<".", "T", "X", "T">>, <<".", "T", "x", "t">>}
Filenames == {stem \o suffix : stem \in TextsUpTo(StemChars, MaxStem), suffix \in Suffixes}

InitIdent ==
  /\ fnArg \in Filenames
  /\ fnRes = None
  /\ MainIdle

\* a name the loader keeps; transcript_id and out_path of process_transcript
DeriveId ==
  /\ fnRes = None
  /\ IsTranscriptName(fnArg)
  /\ fnRes' = Some([transcript_id |-> TranscriptId(fnArg),
                    out_path |-> OutPath(TranscriptId(fnArg))])
  /\ UNCHANGED <<fnArg, mainVars>>

NextIdent == DeriveId

IdentSpec == InitIdent /\ [][NextIdent]_vars

\* ================================================================== claims
Result(j) == futures[j][1]
Succeeded(j) == j \in Done /\ Result(j).error = None
Failed(j) == j \in Done /\ Result(j).error # None
\* j completed before k
CompletedBefore(j, k) ==
  \E a, b \in 1..Len(completed) : a < b /\ completed[a] = j /\ completed[b] = k

\* the identifiers of the loaded transcripts are pairwise distinct
IdsDistinct ==
  \A i, k \in 1..N : i # k => TranscriptId(Filename(i)) # TranscriptId(Filename(k))

\* ---- C1
C1_Results ==
  /\ \A j \in Submitted :
       /\ (jobs[j].pc = "done") = (futures[j] # None)
       /\ jobs[j].stage # "" => jobs[j].pc = "done"
  /\ \A j \in Done :
       /\ Result(j).filename = Filename(j)
       /\ (jobs[j].stage # "") = (Result(j).error # None)
       /\ (Result(j).error # None) = (Result(j).out_path = None)
  /\ mpc = "done" => Done = 1..N

C1_FailureIsLocal ==
  \A j \in Submitted :
    (jobs[j].pc # "done" /\ jobs'[j].pc = "done" /\ jobs'[j].stage # "") =>
      /\ mpc' = mpc
      /\ printed' = printed
      /\ Len(jobs') = Len(jobs)
      /\ \A k \in Submitted \ {j} : jobs'[k] = jobs[k] /\ futures'[k] = futures[k]

\* C1: a failure at any stage of a job (the call of the chain, the parse, the
\* opening or the writing of the output file) ends that job with a result that
\* holds its source filename and an error message and no output path; the step
\* changes neither main nor any other job, and main ends only when every job
\* has its result.
C1_PerJobIsolation == [](C1_Results) /\ [][C1_FailureIsLocal]_vars

\* a job failed while writing and a job that was still queued then has
\* succeeded, under one worker thread
C1_Witness ==
  \E j, k \in Done :
    /\ max_workers = 1
    /\ jobs[j].stage = "write"
    /\ Succeeded(k)
    /\ CompletedBefore(j, k)

\* ---- C2
Invoking == {j \in Submitted : jobs[j].pc \in {"invoking", "hung"}}

\* C2: at most max_workers jobs are inside quiz_chain.invoke at a time.
C2_BoundedParallelism == Cardinality(Invoking) <= max_workers

\* every job is submitted, max_workers of them are inside the call and
\* another waits in the queue
C2_Witness ==
  /\ mpc = "report"
  /\ Cardinality(Invoking) = max_workers
  /\ \E j \in Submitted : jobs[j].pc = "queued"

\* ---- C3
InputFilenames == {listing[i] : i \in {k \in 1..Len(listing) : IsTranscriptName(listing[k])}}

Terminated ==
  /\ mpc = "done"
  /\ Len(futures) = N
  /\ N = Cardinality(InputFilenames)
  /\ \A j \in 1..N : futures[j] # None
  /\ {Result(j).filename : j \in 1..N} = InputFilenames

\* C3: when every call of the chain returns or fails, the run ends with one
\* result per loaded transcript, and the filenames of the results are the
\* input filenames.
C3_Completion == <>Terminated

\* the run has ended with one worker thread and MaxFiles transcripts
C3_Witness == Terminated /\ max_workers = 1 /\ N = MaxFiles /\ N >= 2

\* ---- C4
\* C4: with pairwise distinct identifiers, the file of a job that succeeded
\* holds the document that job wrote from then on, whatever other jobs do, and
\* at the end as many results are failures as jobs failed and as many are
\* successes as jobs did not.
C4_NoRollback ==
  IdsDistinct =>
    /\ \A k \in Submitted :
         Succeeded(k) => disk[JobPath(k)] = Some(json_dump(jobs[k].obj[1]))
    /\ mpc = "done" =>
         /\ Cardinality({j \in 1..N : Failed(j)})
              = Cardinality({j \in 1..N : jobs[j].stage # ""})
         /\ Cardinality({j \in 1..N : Succeeded(j)})
              = Cardinality({j \in 1..N : jobs[j].stage = ""})

\* the run has ended; a job failed while writing after another had succeeded
C4_Witness ==
  /\ mpc = "done"
  /\ IdsDistinct
  /\ \E j, k \in Done :
       Succeeded(k) /\ jobs[j].stage = "write" /\ CompletedBefore(k, j)

\* ---- C5
\* C5: the transcript_id of the document that a successful job wrote equals
\* the identifier derived from the job's source filename.
C5_TranscriptIdEchoed ==
  \A j \in Submitted :
    Succeeded(j) => jobs[j].obj[1].transcript_id = TranscriptId(Filename(j))

\* ---- C6
QuizDocumentOk(obj) ==
  /\ Len(obj.quizzes) >= 3
  /\ \A i \in 1..Len(obj.quizzes) :
       /\ obj.quizzes[i].options = 4
       /\ obj.quizzes[i].correct_answer_index \in 0..3

\* C6: every document that a successful job wrote to the output folder has
\* at least 3 quizzes, each of exactly 4 options and of an answer index in 0..3.
C6_WrittenDocumentsValid ==
  \A j \in Submitted : Succeeded(j) => QuizDocumentOk(jobs[j].obj[1])

\* ---- C7
ParserDiagnostics ==
  {"Expecting value", "Expecting property name enclosed in double quotes",
   "Unterminated string", "Expecting ',' delimiter", "Extra data"}

C7_ParseFailure ==
  \A j \in Done :
    jobs[j].stage = "parse" =>
      /\ \E d \in ParserDiagnostics : Result(j).error = Some(<<"JSON parse error: ", d>>)
      /\ Result(j).out_path = None
      /\ ~jobs[j].opened
      /\ (\A k \in Submitted : jobs[k].opened => JobPath(k) # JobPath(j))
           => disk[JobPath(j)] = None

C7_ParseFailureIsLocal ==
  \A j \in Submitted :
    (jobs[j].pc # "done" /\ jobs'[j].pc = "done" /\ jobs'[j].stage = "parse") =>
      /\ disk' = disk
      /\ mpc' = mpc
      /\ printed' = printed
      /\ \A k \in Submitted \ {j} : jobs'[k] = jobs[k] /\ futures'[k] = futures[k]

\* C7: a job whose response does not parse after the fences are stripped ends
\* with the error "JSON parse error: " followed by the parser's message and
\* with no output path; it has opened no file, the step changes no file,
\* neither main nor any other job.
C7_ParseError == [](C7_ParseFailure) /\ [][C7_ParseFailureIsLocal]_vars

\* a job ended with a parse error while another job was writing its file,
\* and that job then succeeded
C7_Witness ==
  \E j, k \in Done :
    /\ jobs[j].stage = "parse"
    /\ Succeeded(k)
    /\ CompletedBefore(j, k)
    /\ max_workers = 2

\* ---- C8
\* C8: at the end of a run in which two jobs of the same identifier both
\* succeeded, both report the same output path and the file holds the
\* complete document of the job that wrote to it last.
C8_LastWriteWins ==
  mpc = "done" =>
    \A j, k \in 1..N :
      (j # k /\ JobPath(j) = JobPath(k) /\ Succeeded(j) /\ Succeeded(k)) =>
        /\ Result(j).out_path = Result(k).out_path
        /\ lastWriter[JobPath(j)] # None
        /\ disk[JobPath(j)]
             = Some(json_dump(jobs[lastWriter[JobPath(j)][1]].obj[1]))

\* ---- C9
\* C9: at the end of a run the output folder holds the file of an identifier
\* exactly if a job of that identifier succeeded.
C9_FileIffSuccess ==
  mpc = "done" =>
    \A p \in Paths :
      (disk[p] # None) = (\E j \in 1..N : Succeeded(j) /\ JobPath(j) = p)

\* ---- C10
RECURSIVE SumSeq(_)
SumSeq(q) == IF q = <<>> THEN 0 ELSE Head(q) + SumSeq(Tail(q))

C10_CallsOnce ==
  /\ \A j \in Submitted : calls[j] = (IF jobs[j].pc = "queued" THEN 0 ELSE 1)
  /\ SumSeq(calls) <= N

C10_DoneIsFinal ==
  \A j \in Submitted :
    jobs[j].pc = "done" =>
      jobs'[j] = jobs[j] /\ futures'[j] = futures[j] /\ calls'[j] = calls[j]

\* C10: a job calls the chain once when a worker starts it and never again,
\* a job that has returned is never run again, and the calls of a run never
\* outnumber the transcripts.
C10_NoRetries == [](C10_CallsOnce) /\ [][C10_DoneIsFinal]_vars

\* the run has ended and a job whose call failed made one call
C10_Witness ==
  /\ mpc = "done"
  /\ \E j \in Done : jobs[j].stage = "client" /\ calls[j] = 1


\* ---- C11
JobLines == {i \in 1..Len(printed) : printed[i].job # 0}

\* C11: every line names a job that has completed, no job has two lines, at
\* the end every job has one, and the line of a job is the failure line with
\* the source file and the error text exactly if the job failed, and else the
\* success line with the source file and the output path.
C11_Reporting ==
  /\ \A a, b \in JobLines : printed[a].job = printed[b].job => a = b
  /\ \A a \in JobLines : printed[a].job \in Done
  /\ mpc = "done" => {printed[a].job : a \in JobLines} = 1..N
  /\ \A a \in JobLines :
       LET j == printed[a].job
       IN /\ printed[a].fn = Filename(j)
          /\ IF Failed(j)
               THEN /\ printed[a].kind = "Error processing"
                    /\ printed[a].detail = Result(j).error[1]
               ELSE /\ printed[a].kind = "Generated quiz for"
                    /\ printed[a].detail = Result(j).out_path


\* ---- C12
\* the folder can be listed and no entry has the suffix .txt in any case
NoTranscriptName ==
  /\ inputDir = "ok"
  /\ \A i \in 1..Len(listing) : ~IsTranscriptName(listing[i])

NothingDone ==
  /\ jobs = <<>>
  /\ futures = <<>>
  /\ calls = <<>>
  /\ ~outDirExists
  /\ \A p \in Paths : disk[p] = None

\* C12: on a folder without an entry of suffix .txt, main() ends after the
\* notice: the chain is not built, no job is submitted, the output folder is
\* not created, and there is no result and no result line.
C12_EmptyInput ==
  (NoTranscriptName /\ mpc # "load") =>
    mpc = "done" /\ printed = <<NoticeLine>> /\ NothingDone

\* main() has ended on a folder that holds entries, none of suffix .txt
C12_Witness == NoTranscriptName /\ Len(listing) = MaxFiles /\ mpc = "done"

\* ---- C13
\* the entries that are regular files of suffix .txt, in the folder's order
RegularTranscripts ==
  Restrict(listing, {listing[i] : i \in {k \in 1..Len(listing) :
                        IsTranscriptName(listing[k]) /\ listing[k] \notin dirs}})

\* C13: on a folder that can be listed, loading does not fail and yields one
\* transcript per regular file of suffix .txt, and none for another entry.
C13_LoaderFilter ==
  (inputDir = "ok" /\ mpc # "load") =>
    /\ mpc # "crashed"
    /\ [i \in 1..N |-> transcripts[i][1]] = RegularTranscripts

\* ---- C14
\* C14: on a folder that is missing or unreadable, the exception leaves
\* main(): no job is submitted, the chain is never called, nothing is printed
\* and the output folder is neither created nor written to.
C14_FatalStartup ==
  inputDir # "ok" =>
    /\ mpc \in {"load", "crashed"}
    /\ printed = <<>>
    /\ NothingDone

\* main() has been left by the exception of a missing folder
C14_Witness == inputDir = "missing" /\ mpc = "crashed"


\* ---- C15
\* C15: a content without a fence normalizes to the same text whether the
\* reply holds it bare, in a fence tagged json or in a bare fence, and the
\* normalization of a normalized text is that text.
C15_FenceStripping ==
  fnRes # None =>
    /\ fnRes[1].text = StripFences(fnArg)
    /\ fnRes[1].again # None => fnRes[1].again[1] = fnRes[1].text

\* a content of a backquote and a letter, in a fence tagged json, normalized twice
C15_Witness ==
  /\ fnRes # None
  /\ StartsAt(fnRes[1].raw, 1, FenceJson)
  /\ Len(fnArg) = MaxInner
  /\ Tick \in {fnArg[i] : i \in 1..Len(fnArg)}
  /\ fnRes[1].text # <<>>
  /\ fnRes[1].again # None

\* ---- C16
DotJson == <<".", "j", "s", "o", "n">>

\* C16: the identifier of a filename is the name without its last four
\* characters (the suffix .txt in any case) in upper case, and the output
\* path is the output folder, "/", the identifier and ".json".
C16_IdentifierDerivation ==
  fnRes # None =>
    LET id == Upper(SubStr(fnArg, 1, Len(fnArg) - 4))
    IN /\ fnRes[1].transcript_id = id
       /\ fnRes[1].out_path = OutputDir \o <<"/">> \o id \o DotJson


\* ---- C17
\* C17: the result lines are printed in the order in which the jobs were
\* completed: the job of an earlier line was completed before the job of
\* every later line.
C17_CompletionOrder ==
  \A a, b \in JobLines :
    a < b => CompletedBefore(printed[a].job, printed[b].job)


\* ---- C18
\* what the jobs whose call returns come to when fewer than max_workers
\* calls hang: each is completed and reported, and has its file if it succeeded
OthersServed ==
  /\ mpc \in {"report", "done"}
  /\ Cardinality(Hung) < max_workers =>
       \A j \in (1..N) \ Hung :
         /\ j \in Done
         /\ j \in Reported
         /\ Succeeded(j) => disk[JobPath(j)] # None

\* a hung job stays hung
HungForever == \A j \in Submitted : jobs[j].pc = "hung" => jobs'[j].pc = "hung"

\* with max_workers calls hung no queued job is started
QueuedBlocked ==
  Cardinality(Hung) >= max_workers =>
    \A j \in Submitted : jobs[j].pc = "queued" => jobs'[j].pc = "queued"

\* C18: a job whose call never returns keeps one worker thread for ever and
\* main() never ends; with fewer than max_workers such jobs every other job
\* is completed, has written its file if it succeeded and has its line
\* printed; with max_workers of them a job still queued is never started.
C18_HungCallContainment ==
  /\ [](Hung # {} => mpc # "done" /\ Hung \subseteq Running
                        /\ Cardinality(Running) <= max_workers)
  /\ [][HungForever /\ QueuedBlocked]_vars
  /\ <>[]OthersServed

\* of two jobs on two threads one hangs; the other has succeeded, written
\* its file and been reported
C18_Witness ==
  /\ max_workers = 2
  /\ Cardinality(Hung) = 1
  /\ \E j \in (1..N) \ Hung :
       Succeeded(j) /\ j \in Reported /\ disk[JobPath(j)] # None


\* ---- C19
\* the documents the service can send in reply to the request of job j
OwnDocuments(j) ==
  {json_dump(json_loads(StripFences(raw)).obj) :
     raw \in {r \in Responses(TranscriptId(Filename(j))) : json_loads(StripFences(r)).ok}}

\* the request of a started job is built from its own filename and text,
\* and the file of a succeeded job holds a reply to its own request
OwnData ==
  \A j \in Submitted :
    /\ jobs[j].request # None =>
         jobs[j].request[1] = [transcript_id |-> TranscriptId(Filename(j)),
                               context |-> TextOf(Filename(j))]
    /\ Succeeded(j) =>
         /\ disk[JobPath(j)] # None
         /\ disk[JobPath(j)][1] \in OwnDocuments(j)

\* a step that creates, truncates or writes a file is a step of one job, on
\* the path of that job
OwnFileOnly ==
  \A p \in Paths :
    disk'[p] # disk[p] =>
      \E j \in Submitted :
        /\ JobPath(j) = p
        /\ jobs'[j] # jobs[j]
        /\ \A k \in Submitted \ {j} : jobs'[k] = jobs[k]

\* C19: when the identifiers are pairwise distinct, under every interleaving
\* the file ID.json of a job holds the parsed reply to the job's own request,
\* which is built from its own text and identifier, and a job creates,
\* truncates and writes no file but its own.
C19_DataIsolation ==
  /\ [](IdsDistinct => OwnData)
  /\ [][IdsDistinct => OwnFileOnly]_vars

\* two jobs with distinct identifiers overlapped (the second was started
\* later and completed first) and both succeeded
C19_Witness ==
  /\ IdsDistinct
  /\ completed = <<2, 1>>
  /\ Succeeded(1)
  /\ Succeeded(2)
  /\ disk[JobPath(1)] # disk[JobPath(2)]

====
